---- MODULE Spec2Model ----
(***************************************************************************)
(* A model of src/eg_heap.py: HeapNode and MinHeap, a binary min-heap with *)
(* a (priority, insertion_count) order, snapshot scopes, in-place priority *)
(* updates, removal by value, bulk push and merge.                         *)
(*                                                                         *)
(* HeapNode objects are mutable and shared by reference (a snapshot is a   *)
(* shallow copy of the list, merge extends one list with the references of *)
(* another), so the model keeps an object store `nodes` and lets every     *)
(* list hold node identities (indices into the store).                     *)
(***************************************************************************)
EXTENDS Integers, Sequences, FiniteSets, Bags, TLC

\* ------------------------------------------------------------------ bounds
MaxNodes == 3       \* HeapNode objects ever constructed, over all heaps
MaxLen == 4         \* longest list a push or a merge may build
MaxCalls == 5       \* public calls the caller makes
MaxPriority == 1    \* priorities are 0..MaxPriority
MaxValue == 1       \* values are 0..MaxValue
MaxK == 2           \* k of k_smallest is 0..MaxK
BulkLen == 2        \* items in one bulk_push
RepairNodes == 6    \* nodes of the caller that builds one heap and repairs it
RepairCalls == 7    \* calls of that caller

Heaps == {"a", "b"}
Priorities == 0 .. MaxPriority
Values == 0 .. MaxValue

VARIABLES
    nodes,            \* the HeapNode objects: identity i is nodes[i]
    heap,             \* heap[h]: MinHeap.heap, a list of node identities
    size,             \* size[h]: MinHeap.size
    insertion_count,  \* insertion_count[h]: MinHeap._insertion_count
    snapshots,        \* snapshots[h]: MinHeap._snapshots, a stack of lists
    owner,            \* history: owner[i] is the heap whose push constructed nodes[i]
    scope,            \* the snapshot scopes the caller is inside, outermost first
    entered,          \* history: what each open scope saw when it was entered
    calls,            \* history: public calls made so far
    failed,           \* history: some call has raised
    net,              \* history: nodes put in minus nodes taken out, rolled back with a scope
    raw,              \* history: nodes put in minus nodes taken out, never rolled back
    last              \* history: the last public call and what it returned

vars == <<nodes, heap, size, insertion_count, snapshots, owner, scope, entered,
          calls, failed, net, raw, last>>

\* ------------------------------------------------------------ list helpers
\* Python lists are indexed from 0.
At(s, i) == s[i + 1]
Put(s, i, x) == [s EXCEPT ![i + 1] = x]
ButLast(s) == SubSeq(s, 1, Len(s) - 1)

\* Optional[T]: None is the empty sequence, a value v is <<v>>.
None == <<>>
Some(v) == <<v>>

\* -------------------------------------------------------------- HeapNode
HeapNode(priority, value, count) ==
    [priority |-> priority, value |-> value, insertion_count |-> count]

\* HeapNode.__lt__ with the tie-break turned round: the later insertion first.
NodeLtLifo(ns, a, b) ==
    IF ns[a].priority = ns[b].priority
    THEN ns[a].insertion_count > ns[b].insertion_count
    ELSE ns[a].priority < ns[b].priority

\* HeapNode.__lt__ on the objects a and b of the store ns.
NodeLt(ns, a, b) ==
    IF ns[a].priority = ns[b].priority
    THEN ns[a].insertion_count < ns[b].insertion_count
    ELSE ns[a].priority < ns[b].priority

\* HeapNode defines __lt__ and (as a dataclass) __eq__ only: a <= b finds no
\* __le__ and no reflected __ge__, and raises TypeError.
NodeLeRaises == TRUE

\* What a <= b would answer if the operator were defined from __lt__.
NodeLe(ns, a, b) == ~NodeLt(ns, b, a)

\* ----------------------------------------------------------------- heapq
\* heapq._siftdown(heap, startpos, pos): move the item at pos up.
RECURSIVE HqSiftDownLoop(_, _, _, _, _)
HqSiftDownLoop(ns, hp, startpos, pos, newitem) ==
    IF pos > startpos
    THEN LET parentpos == (pos - 1) \div 2
             parent == At(hp, parentpos)
         IN  IF NodeLt(ns, newitem, parent)
             THEN HqSiftDownLoop(ns, Put(hp, pos, parent), startpos, parentpos, newitem)
             ELSE Put(hp, pos, newitem)
    ELSE Put(hp, pos, newitem)

HqSiftDown(ns, hp, startpos, pos) ==
    HqSiftDownLoop(ns, hp, startpos, pos, At(hp, pos))

\* heapq._siftup(heap, pos): bubble the smaller child up to a leaf, then
\* sift the item back up.
RECURSIVE HqSiftUpLoop(_, _, _, _, _)
HqSiftUpLoop(ns, hp, startpos, pos, newitem) ==
    LET endpos == Len(hp)
        childpos == 2 * pos + 1
        rightpos == childpos + 1
        c == IF rightpos < endpos /\ ~NodeLt(ns, At(hp, childpos), At(hp, rightpos))
             THEN rightpos ELSE childpos
    IN  IF childpos < endpos
        THEN HqSiftUpLoop(ns, Put(hp, pos, At(hp, c)), startpos, c, newitem)
        ELSE HqSiftDown(ns, Put(hp, pos, newitem), startpos, pos)

HqSiftUp(ns, hp, pos) == HqSiftUpLoop(ns, hp, pos, pos, At(hp, pos))

\* heapq.heappush(heap, item)
HeapPush(ns, hp, item) == HqSiftDown(ns, Append(hp, item), 0, Len(hp))

\* heapq.heappop(heap) on a non-empty list: <<returned item, list afterwards>>.
HeapPop(ns, hp) ==
    LET lastelt == hp[Len(hp)]
        rest == ButLast(hp)
    IN  IF rest # <<>>
        THEN <<rest[1], HqSiftUp(ns, Put(rest, 0, lastelt), 0)>>
        ELSE <<lastelt, rest>>

\* heapq.heapify(x): _siftup at n//2 - 1 down to 0.
RECURSIVE HeapifyFrom(_, _, _)
HeapifyFrom(ns, hp, i) ==
    IF i < 0 THEN hp ELSE HeapifyFrom(ns, HqSiftUp(ns, hp, i), i - 1)

Heapify(ns, hp) == HeapifyFrom(ns, hp, (Len(hp) \div 2) - 1)

\* ---------------------------------------------------- MinHeap, private parts
\* MinHeap._heapify with an empty body.
_heapifyNothing(ns, hp) == hp

\* MinHeap._heapify
_heapify(ns, hp) == Heapify(ns, hp)

\* MinHeap._sift_up(idx): [raised, heap]. The loop's first statement compares
\* with <=, so any idx > 0 raises before the list is touched.
RECURSIVE SiftUpLoop(_, _, _, _)
SiftUpLoop(ns, hp, idx, temp) ==
    IF idx > 0
    THEN LET parent_idx == (idx - 1) \div 2
         IN  IF NodeLeRaises
             THEN [raised |-> TRUE, heap |-> hp]
             ELSE IF NodeLe(ns, At(hp, parent_idx), temp)
                  THEN [raised |-> FALSE, heap |-> Put(hp, idx, temp)]
                  ELSE SiftUpLoop(ns, Put(hp, idx, At(hp, parent_idx)), parent_idx, temp)
    ELSE [raised |-> FALSE, heap |-> Put(hp, idx, temp)]

_sift_up(ns, hp, idx) == SiftUpLoop(ns, hp, idx, At(hp, idx))

\* MinHeap._sift_down(idx), with sz the value of self.size. The right child
\* is compared with self.heap[smallest], which is the list's current entry
\* (the node just moved up, once the loop has moved), not with temp.
RECURSIVE SiftDownLoop(_, _, _, _, _)
SiftDownLoop(ns, hp, sz, idx, temp) ==
    LET left == 2 * idx + 1
        right == 2 * idx + 2
        s1 == IF left < sz /\ NodeLt(ns, At(hp, left), temp) THEN left ELSE idx
        smallest == IF right < sz /\ NodeLt(ns, At(hp, right), At(hp, s1))
                    THEN right ELSE s1
    IN  IF smallest = idx
        THEN Put(hp, idx, temp)
        ELSE SiftDownLoop(ns, Put(hp, idx, At(hp, smallest)), sz, smallest, temp)

_sift_down(ns, hp, sz, idx) == SiftDownLoop(ns, hp, sz, idx, At(hp, idx))

\* The first index (from 0) whose node's value equals value, or -1: the scan
\* "for i, node in enumerate(self.heap): if node.value == value".
RECURSIVE ScanFrom(_, _, _, _)
ScanFrom(ns, hp, value, i) ==
    IF i >= Len(hp) THEN -1
    ELSE IF ns[At(hp, i)].value = value THEN i
    ELSE ScanFrom(ns, hp, value, i + 1)

\* The scan that settles on index 0 when no node has the value.
ScanOrFirst(ns, hp, value) ==
    IF ScanFrom(ns, hp, value, 0) < 0 /\ hp # <<>> THEN 0 ELSE ScanFrom(ns, hp, value, 0)

Scan(ns, hp, value) == ScanFrom(ns, hp, value, 0)

\* key_func is None: push takes the value itself as its priority.
KeyOf(value) == value

\* One heap as an object: o.nodes the store, o.heap, o.size, o.count.
Obj(ns, hp, sz, cnt) == [nodes |-> ns, heap |-> hp, size |-> sz, count |-> cnt]

\* MinHeap.push_with_priority on the object o.
PushObj(o, value, priority) ==
    LET ns == Append(o.nodes, HeapNode(priority, value, o.count))
    IN  Obj(ns, HeapPush(ns, o.heap, Len(ns)), o.size + 1, o.count + 1)

\* MinHeap.pop with "self.size -= 1" before the emptiness test.
PopObjEmptyDecrements(o) ==
    IF o.heap = <<>>
    THEN [obj |-> Obj(o.nodes, o.heap, o.size - 1, o.count), ret |-> None, node |-> 0]
    ELSE LET r == HeapPop(o.nodes, o.heap)
         IN  [obj |-> Obj(o.nodes, r[2], o.size - 1, o.count),
              ret |-> Some(o.nodes[r[1]].value), node |-> r[1]]

\* MinHeap.pop without "self.size -= 1".
PopObjKeepsSize(o) ==
    IF o.heap = <<>>
    THEN [obj |-> o, ret |-> None, node |-> 0]
    ELSE LET r == HeapPop(o.nodes, o.heap)
         IN  [obj |-> Obj(o.nodes, r[2], o.size, o.count),
              ret |-> Some(o.nodes[r[1]].value), node |-> r[1]]

\* MinHeap.pop on the object o: [obj, ret, node], node the popped identity or 0.
PopObj(o) ==
    IF o.heap = <<>>
    THEN [obj |-> o, ret |-> None, node |-> 0]
    ELSE LET r == HeapPop(o.nodes, o.heap)
         IN  [obj |-> Obj(o.nodes, r[2], o.size - 1, o.count),
              ret |-> Some(o.nodes[r[1]].value), node |-> r[1]]

\* n calls of pop in a row: [obj, rets, popped].
RECURSIVE PopMany(_, _)
PopMany(o, n) ==
    IF n <= 0 THEN [obj |-> o, rets |-> <<>>, popped |-> <<>>]
    ELSE LET p == PopObj(o)
             r == PopMany(p.obj, n - 1)
         IN  [obj |-> r.obj, rets |-> <<p.ret>> \o r.rets,
              popped |-> (IF p.node = 0 THEN <<>> ELSE <<p.node>>) \o r.popped]

\* "for item in reversed(items): self.push(item)"
RECURSIVE PushAllReversed(_, _)
PushAllReversed(o, items) ==
    IF items = <<>> THEN o
    ELSE PushAllReversed(PushObj(o, items[Len(items)], KeyOf(items[Len(items)])),
                         ButLast(items))

\* "for item in items: self.push(item)"
RECURSIVE PushAll(_, _)
PushAll(o, items) ==
    IF items = <<>> THEN o
    ELSE PushAll(PushObj(o, Head(items), KeyOf(Head(items))), Tail(items))

\* The object of heap h in the current state.
Self(h) == Obj(nodes, heap[h], size[h], insertion_count[h])

\* The (priority, value) pairs of a list, in list order.
Pairs(ns, hp) == [i \in 1 .. Len(hp) |-> <<ns[hp[i]].priority, ns[hp[i]].value>>]

\* The record of a call: the operation, the heap, what it returned (None when
\* it returned nothing), whether it raised, and what the history needs of it.
Call(op, h, ret, raised, aux) ==
    [op |-> op, h |-> h, ret |-> ret, raised |-> raised, aux |-> aux]

\* ------------------------------------------------------------------- Init
\* MinHeap.__init__ without items, for each heap.
Init ==
    /\ nodes = <<>>
    /\ heap = [h \in Heaps |-> <<>>]
    /\ size = [h \in Heaps |-> 0]
    /\ insertion_count = [h \in Heaps |-> 0]
    /\ snapshots = [h \in Heaps |-> <<>>]
    /\ owner = <<>>
    /\ scope = <<>>
    /\ entered = <<>>
    /\ calls = 0
    /\ failed = FALSE
    /\ net = [h \in Heaps |-> 0]
    /\ raw = [h \in Heaps |-> 0]
    /\ last = Call("init", "a", None, FALSE, None)

\* The heap h becomes the object o; the other heap keeps its fields. The
\* nodes that o has more than the store were constructed by h.
Store(h, o) ==
    /\ nodes' = o.nodes
    /\ owner' = owner \o [i \in 1 .. Len(o.nodes) - Len(nodes) |-> h]
    /\ heap' = [heap EXCEPT ![h] = o.heap]
    /\ size' = [size EXCEPT ![h] = o.size]
    /\ insertion_count' = [insertion_count EXCEPT ![h] = o.count]

\* The history of a call that returned ret: one more call, none raised.
Returned(op, h, ret, aux) ==
    /\ calls' = calls + 1
    /\ failed' = failed
    /\ last' = Call(op, h, ret, FALSE, aux)

\* The history of a call that raised.
Raised(op, h) ==
    /\ calls' = calls + 1
    /\ failed' = TRUE
    /\ last' = Call(op, h, None, TRUE, None)

\* The history counters of h move by d.
Count(h, d) ==
    /\ net' = [net EXCEPT ![h] = @ + d]
    /\ raw' = [raw EXCEPT ![h] = @ + d]

\* ------------------------------------------------------------ the actions
\* MinHeap.push_with_priority(value, priority)
PushWithPriority(h, value, priority) ==
    /\ Store(h, PushObj(Self(h), value, priority))
    /\ Count(h, 1)
    /\ Returned("push_with_priority", h, None, None)
    /\ UNCHANGED <<snapshots, scope, entered>>

\* MinHeap.push(value)
Push(h, value) ==
    /\ Store(h, PushObj(Self(h), value, KeyOf(value)))
    /\ Count(h, 1)
    /\ Returned("push", h, None, None)
    /\ UNCHANGED <<snapshots, scope, entered>>

\* MinHeap.pop()
Pop(h) ==
    LET p == PopObj(Self(h))
    IN  /\ Store(h, p.obj)
        /\ Count(h, IF p.node = 0 THEN 0 ELSE -1)
        /\ Returned("pop", h, p.ret, IF p.node = 0 THEN None ELSE Some(nodes[p.node]))
        /\ UNCHANGED <<snapshots, scope, entered>>

\* What MinHeap.peek() returns on heap h.
PeekResult(h) ==
    IF heap[h] = <<>> THEN None
    ELSE Some(<<nodes[heap[h][1]].priority, nodes[heap[h][1]].value>>)

\* MinHeap.peek()
Peek(h) ==
    /\ Returned("peek", h, PeekResult(h), None)
    /\ UNCHANGED <<nodes, owner, heap, size, insertion_count, snapshots, scope,
                   entered, net, raw>>

\* MinHeap.bulk_push(items)
BulkPush(h, items) ==
    /\ LET o == PushAll(Self(h), items)
       IN  Store(h, Obj(o.nodes, _heapify(o.nodes, o.heap), o.size, o.count))
    /\ Count(h, Len(items))
    /\ Returned("bulk_push", h, None, None)
    /\ UNCHANGED <<snapshots, scope, entered>>

\* MinHeap.merge(other): self is h, other is o (h.merge(h) is a legal call).
Merge(h, o) ==
    /\ heap' = [heap EXCEPT ![h] = _heapify(nodes, heap[h] \o heap[o])]
    /\ size' = [size EXCEPT ![h] = size[h] + size[o]]
    /\ Count(h, Len(heap[o]))
    /\ Returned("merge", h, None, None)
    /\ UNCHANGED <<nodes, owner, insertion_count, snapshots, scope, entered>>

\* MinHeap.is_empty()
is_empty(h) == size[h] = 0

\* One next() on the generator MinHeap.drain(): pop and yield, or stop.
DrainNext(h) ==
    IF is_empty(h)
    THEN /\ Returned("drain", h, None, None)
         /\ UNCHANGED <<nodes, owner, heap, size, insertion_count, snapshots, scope,
                        entered, net, raw>>
    ELSE LET p == PopObj(Self(h))
         IN  /\ Store(h, p.obj)
             /\ Count(h, IF p.node = 0 THEN 0 ELSE -1)
             /\ Returned("drain", h, Some(p.ret),
                         IF p.node = 0 THEN None ELSE Some(nodes[p.node]))
             /\ UNCHANGED <<snapshots, scope, entered>>

Min(a, b) == IF a < b THEN a ELSE b

\* What a scope remembers of its entry: the heap, its pairs and size, the
\* depth of its snapshot stack and its net count.
Entry(h) ==
    [h |-> h, pairs |-> Pairs(nodes, heap[h]), size |-> size[h],
     depth |-> Len(snapshots[h]), net |-> net[h]]

\* Entering "with h.snapshot():": the code before the yield.
SnapshotEnter(h) ==
    /\ snapshots' = [snapshots EXCEPT ![h] = Append(@, heap[h])]
    /\ scope' = Append(scope, h)
    /\ entered' = Append(entered, Entry(h))
    /\ Returned("enter", h, None, None)
    /\ UNCHANGED <<nodes, owner, heap, size, insertion_count, net, raw>>

\* The finally clause with "self.size = len(self._snapshots)".
RestoredWrongLen(stk) ==
    [heap |-> stk[Len(stk)], size |-> Len(ButLast(stk)), snapshots |-> ButLast(stk)]

\* The finally clause on the stack stk: [heap, size, snapshots].
Restored(stk) ==
    [heap |-> stk[Len(stk)], size |-> Len(stk[Len(stk)]), snapshots |-> ButLast(stk)]

\* Leaving a scope with the sequence counter taken back to the number of
\* nodes restored, when that is less.
SnapshotExitRewindsCounter ==
    /\ scope # <<>>
    /\ LET h == scope[Len(scope)]
           r == Restored(snapshots[h])
       IN  /\ heap' = [heap EXCEPT ![h] = r.heap]
           /\ snapshots' = [snapshots EXCEPT ![h] = r.snapshots]
           /\ size' = [size EXCEPT ![h] = r.size]
           /\ insertion_count' = [insertion_count EXCEPT ![h] = Min(@, r.size)]
           /\ net' = [net EXCEPT ![h] = entered[Len(entered)].net]
           /\ Returned("exit", h, None, Some(entered[Len(entered)]))
    /\ scope' = ButLast(scope)
    /\ entered' = ButLast(entered)
    /\ UNCHANGED <<nodes, owner, raw>>

\* Leaving the innermost scope, normally or by a return or an exception
\* that passes through it: the finally clause.
SnapshotExit ==
    /\ scope # <<>>
    /\ LET h == scope[Len(scope)]
           r == Restored(snapshots[h])
       IN  /\ heap' = [heap EXCEPT ![h] = r.heap]
           /\ snapshots' = [snapshots EXCEPT ![h] = r.snapshots]
           /\ size' = [size EXCEPT ![h] = r.size]
           /\ net' = [net EXCEPT ![h] = entered[Len(entered)].net]
           /\ Returned("exit", h, None, Some(entered[Len(entered)]))
    /\ scope' = ButLast(scope)
    /\ entered' = ButLast(entered)
    /\ UNCHANGED <<nodes, owner, insertion_count, raw>>

\* MinHeap.k_smallest(k): a snapshot scope around min(k, size) pops.
KSmallest(h, k) ==
    /\ LET p == PopMany(Self(h), Min(k, size[h]))
           r == Restored(Append(snapshots[h], heap[h]))
       IN  /\ heap' = [heap EXCEPT ![h] = r.heap]
           /\ snapshots' = [snapshots EXCEPT ![h] = r.snapshots]
           /\ size' = [size EXCEPT ![h] = r.size]
           /\ raw' = [raw EXCEPT ![h] = @ - Len(p.popped)]
           /\ Returned("k_smallest", h, Some(p.rets), p.popped)
    /\ UNCHANGED <<nodes, owner, insertion_count, scope, entered, net>>

\* MinHeap.update_priority(value, new_priority)
UpdatePriority(h, value, new_priority) ==
    LET i == Scan(nodes, heap[h], value)
    IN  IF i < 0
        THEN /\ Returned("update_priority", h, Some(FALSE), None)
             /\ UNCHANGED <<nodes, owner, heap, size, insertion_count, snapshots, scope,
                            entered, net, raw>>
        ELSE LET node == At(heap[h], i)
                 old_priority == nodes[node].priority
                 ns == [nodes EXCEPT ![node].priority = new_priority]
                 up == _sift_up(ns, heap[h], i)
             IN  /\ nodes' = ns
                 /\ IF new_priority < old_priority
                    THEN /\ heap' = [heap EXCEPT ![h] = up.heap]
                         /\ IF up.raised
                            THEN Raised("update_priority", h)
                            ELSE Returned("update_priority", h, Some(TRUE), None)
                    ELSE /\ heap' = [heap EXCEPT ![h] = _sift_down(ns, heap[h], size[h], i)]
                         /\ Returned("update_priority", h, Some(TRUE), None)
                 /\ UNCHANGED <<owner, size, insertion_count, snapshots, scope,
                                entered, net, raw>>

\* MinHeap.remove(value)
Remove(h, value) ==
    LET i == Scan(nodes, heap[h], value)
    IN  IF i < 0
        THEN /\ Returned("remove", h, Some(FALSE), None)
             /\ UNCHANGED <<nodes, owner, heap, size, insertion_count, snapshots, scope,
                            entered, net, raw>>
        ELSE LET hp == ButLast(Put(heap[h], i, heap[h][Len(heap[h])]))
                 sz == size[h] - 1
             IN  /\ heap' = [heap EXCEPT ![h] =
                                IF i < Len(hp) THEN _sift_down(nodes, hp, sz, i) ELSE hp]
                 /\ size' = [size EXCEPT ![h] = sz]
                 /\ Count(h, -1)
                 /\ Returned("remove", h, Some(TRUE), None)
                 /\ UNCHANGED <<nodes, owner, insertion_count, snapshots, scope, entered>>

\* ------------------------------------------------------- the caller, bounded
\* The item lists of bulk_push: the lists of BulkLen values.
Items == [1 .. BulkLen -> Values]

\* The caller has a call left.
More == calls < MaxCalls

\* The caller has a call left and may construct n more nodes on heap h.
Room(h, n) == More /\ Len(nodes) + n <= MaxNodes /\ Len(heap[h]) + n <= MaxLen

\* The caller works on heap a with every operation; heap b is the heap it
\* hands to merge, which it fills, pops and updates before and after.
Main == "a"

Next ==
    \/ \E h \in Heaps, v \in Values, p \in Priorities :
           Room(h, 1) /\ PushWithPriority(h, v, p)
    \/ \E v \in Values : Room(Main, 1) /\ Push(Main, v)
    \/ \E h \in Heaps : More /\ Pop(h)
    \/ More /\ Peek(Main)
    \/ \E items \in Items : Room(Main, Len(items)) /\ BulkPush(Main, items)
    \/ \E o \in Heaps : Room(Main, 0) /\ Len(heap[Main]) + Len(heap[o]) <= MaxLen
                        /\ Merge(Main, o)
    \/ More /\ DrainNext(Main)
    \/ More /\ SnapshotEnter(Main)
    \/ More /\ SnapshotExit
    \/ \E k \in 0 .. MaxK : More /\ KSmallest(Main, k)
    \/ \E h \in Heaps, v \in Values, p \in Priorities : More /\ UpdatePriority(h, v, p)
    \/ \E v \in Values : More /\ Remove(Main, v)

Spec == Init /\ [][Next]_vars

\* A caller that only pushes and pops, on one heap.
NextPushPop ==
    \/ \E v \in Values, p \in Priorities : Room(Main, 1) /\ PushWithPriority(Main, v, p)
    \/ \E v \in Values : Room(Main, 1) /\ Push(Main, v)
    \/ More /\ Pop(Main)

SpecPushPop == Init /\ [][NextPushPop]_vars

\* A caller that builds one heap and then updates priorities in it and
\* removes values from it, which is what runs _sift_up and _sift_down.
NextRepair ==
    \/ \E v \in Values, p \in Priorities :
           calls < RepairCalls /\ Len(nodes) < RepairNodes /\ PushWithPriority(Main, v, p)
    \/ \E v \in Values, p \in Priorities : calls < RepairCalls /\ UpdatePriority(Main, v, p)
    \/ \E v \in Values : calls < RepairCalls /\ Remove(Main, v)

SpecRepair == Init /\ [][NextRepair]_vars

\* ------------------------------------------------------------- the claims
\* The live identities of heap h, by position.
Live(h) == 1 .. Len(heap[h])

\* The node at position i (from 1) of heap h.
NodeOf(h, i) == nodes[heap[h][i]]

\* The bag of the elements of a sequence.
BagOf(s) == [x \in {s[i] : i \in 1 .. Len(s)} |-> Cardinality({i \in 1 .. Len(s) : s[i] = x})]

\* node[i] <= node[c] for both children c of every i: no child is smaller
\* than its parent under HeapNode.__lt__.
HeapInvariant(h) ==
    \A i \in 0 .. size[h] - 1 : \A c \in {2 * i + 1, 2 * i + 2} :
        c < size[h] => ~NodeLt(nodes, At(heap[h], c), At(heap[h], i))

\* C1: after every public mutating call that returns, every node of every
\* heap is <= both of its children under the (priority, sequence) order.
C1_HeapInvariant == ~failed => \A h \in Heaps : HeapInvariant(h)

\* C2: two pops in a row on one heap return priorities that do not decrease,
\* so popping until the heap is empty yields a non-decreasing sequence.
C2_PopsNonDecreasing ==
    [][(/\ last.op = "pop" /\ last'.op = "pop" /\ last'.h = last.h
        /\ last.aux # None /\ last'.aux # None)
       => last.aux[1].priority <= last'.aux[1].priority]_vars

\* C3: under pushes and pops alone, a pop never returns an entry while an
\* entry of the same priority that was pushed earlier is still live.
C3_FifoAmongEqual ==
    (last.op = "pop" /\ last.aux # None) =>
        \A i \in Live(last.h) :
            NodeOf(last.h, i).priority = last.aux[1].priority
                => last.aux[1].insertion_count < NodeOf(last.h, i).insertion_count

\* C3's case: a pop has returned an entry and left one of the same priority.
C3_Witness ==
    /\ last.op = "pop" /\ last.aux # None
    /\ \E i \in Live(last.h) : NodeOf(last.h, i).priority = last.aux[1].priority

\* C4: when a snapshot scope exits, the heap's multiset of (priority, value)
\* pairs and its size are those of the moment the scope was entered.
C4_SnapshotRoundTrip ==
    last.op = "exit" =>
        /\ BagOf(Pairs(nodes, heap[last.h])) = BagOf(last.aux[1].pairs)
        /\ size[last.h] = last.aux[1].size

\* C5: an exit pops the snapshot stack once, back to the depth before the
\* matching enter, and restores the storage and the size captured there.
C5_ExitRestoresEntry ==
    last.op = "exit" =>
        /\ Len(snapshots[last.h]) = last.aux[1].depth
        /\ Pairs(nodes, heap[last.h]) = last.aux[1].pairs
        /\ size[last.h] = last.aux[1].size

\* C6: k_smallest(k) returns the values of min(k, size) live entries, in
\* ascending order and none larger than an entry it did not return, and
\* leaves storage and size as they were.
C6_KSmallest ==
    [][\A k \in 0 .. MaxK :
          (last'.op = "k_smallest" /\ KSmallest(Main, k)) =>
              LET n == Min(k, size[Main])
                  got == last'.aux
                  rest == BagOf(heap[Main]) (-) BagOf(got)
              IN  /\ Len(last'.ret[1]) = n
                  /\ Len(got) = n
                  /\ \A i \in 1 .. n : last'.ret[1][i] = Some(nodes[got[i]].value)
                  /\ BagOf(got) \sqsubseteq BagOf(heap[Main])
                  /\ \A i \in 1 .. n - 1 : ~NodeLt(nodes, got[i + 1], got[i])
                  /\ \A i \in 1 .. n : \A x \in BagToSet(rest) : ~NodeLt(nodes, x, got[i])
                  /\ heap' = heap
                  /\ size' = size]_vars

\* C7: the size counter of every heap, the argument of a merge included, is
\* the length of its node list.
C7_SizeIsLength == \A h \in Heaps : size[h] = Len(heap[h])

\* C7's case: a non-empty heap b has been merged into a non-empty heap a.
C7_Witness ==
    /\ last.op = "merge"
    /\ Len(heap["b"]) > 0
    /\ Len(heap["a"]) > Len(heap["b"])
    /\ \A i \in Live("b") : \E j \in Live("a") : heap["a"][j] = heap["b"][i]

\* C8, as the spec states it: len(heap) is the pushes and merge-absorbed
\* nodes minus the pops, removes and drain extractions.
C8_SizeLaw == \A h \in Heaps : size[h] = raw[h]

\* C8, amended: len(heap) is the pushes and merge-absorbed nodes minus the
\* pops, removes and drain extractions that no snapshot exit has undone.
C8_SizeLawWithRollback == \A h \in Heaps : size[h] = net[h]

\* C8's case: a scope has exited and undone extractions made inside it.
C8_Witness == last.op = "exit" /\ raw[last.h] < net[last.h]

\* C9: update_priority never raises, and returns true exactly when a live
\* node has the value.
C9_UpdateNeverFails ==
    [][\A h \in Heaps, v \in Values, p \in Priorities :
          (last'.op = "update_priority" /\ UpdatePriority(h, v, p)) =>
              /\ ~last'.raised
              /\ last'.ret = Some(\E i \in Live(h) : NodeOf(h, i).value = v)]_vars

\* C10: after update_priority(v, p) with v the value of exactly one live node
\* and p below every live priority, peek() returns (p, v).
C10_UpdatedIsPeeked ==
    [][\A h \in Heaps, v \in Values, p \in Priorities :
          (/\ last'.op = "update_priority"
           /\ UpdatePriority(h, v, p)
           /\ Cardinality({i \in Live(h) : NodeOf(h, i).value = v}) = 1
           /\ \A i \in Live(h) : p < NodeOf(h, i).priority)
          => PeekResult(h)' = Some(<<p, v>>)]_vars

\* C11: on a non-empty heap peek() returns the (priority, value) of a live
\* node that no live node is smaller than under the (priority, sequence)
\* order, and changes neither the storage, the size, the sequence counter
\* nor the snapshot stack, so that a second peek returns the same.
C11_PeekIsMinimum ==
    [][\A h \in Heaps :
          (last'.op = "peek" /\ last'.h = h /\ size[h] > 0) =>
              /\ ~last'.raised
              /\ \E i \in Live(h) :
                     /\ last'.ret = Some(<<NodeOf(h, i).priority, NodeOf(h, i).value>>)
                     /\ \A j \in Live(h) : ~NodeLt(nodes, heap[h][j], heap[h][i])
              /\ UNCHANGED <<nodes, heap, size, insertion_count, snapshots>>
              /\ PeekResult(h)' = last'.ret]_vars

\* C12: on a heap of size 0, fresh or emptied, pop() and peek() return None
\* without raising and leave the size at 0 and the storage empty.
C12_EmptyPopPeek ==
    [][\A h \in Heaps :
          (last'.op \in {"pop", "peek"} /\ last'.h = h /\ size[h] = 0) =>
              /\ ~last'.raised
              /\ last'.ret = None
              /\ size'[h] = 0
              /\ heap'[h] = <<>>]_vars

\* C12's case: pop() has returned None on a heap that had nodes pushed on
\* it and was emptied.
C12_Witness ==
    /\ last.op = "pop" /\ last.ret = None /\ ~last.raised
    /\ insertion_count[last.h] > 0
    /\ size[last.h] = 0

\* What C13 says a call leaves alone: nodes and their priorities, the order
\* of the storage, the size, the sequence counter and the snapshot stack.
Untouched == UNCHANGED <<nodes, heap, size, insertion_count, snapshots>>

\* C13: when no live node has the value, update_priority and remove return
\* False, raise nothing, and leave storage, size, sequence counter and
\* snapshot stack as they were.
C13_MissingValue ==
    [][\A h \in Heaps, v \in Values :
          (~\E i \in Live(h) : NodeOf(h, i).value = v) =>
              /\ \A p \in Priorities :
                     (last'.op = "update_priority" /\ UpdatePriority(h, v, p)) =>
                         ~last'.raised /\ last'.ret = Some(FALSE) /\ Untouched
              /\ (last'.op = "remove" /\ Remove(h, v)) =>
                     ~last'.raised /\ last'.ret = Some(FALSE) /\ Untouched]_vars

\* C13's case: update_priority or remove has looked for a value in a heap
\* that has nodes, none of them with the value, and returned False.
C13_Witness ==
    /\ last.op \in {"update_priority", "remove"}
    /\ last.ret = Some(FALSE)
    /\ size[last.h] > 0
    /\ \E v \in Values : \A i \in Live(last.h) : NodeOf(last.h, i).value # v

\* C14: after a.merge(b) with b another heap, len(a) is the former len(a)
\* plus len(b), a's nodes are the former nodes of a and of b together (as a
\* multiset, each with its priority, value and sequence number unchanged),
\* and a satisfies the heap invariant.
C14_MergeResult ==
    [][\A h \in Heaps, o \in Heaps :
          (h # o /\ last'.op = "merge" /\ last'.h = h /\ Merge(h, o)) =>
              /\ size'[h] = size[h] + size[o]
              /\ Len(heap'[h]) = Len(heap[h]) + Len(heap[o])
              /\ BagOf(heap'[h]) = BagOf(heap[h]) (+) BagOf(heap[o])
              /\ nodes' = nodes
              /\ HeapInvariant(h)']_vars

\* C14's case: a merge has put the nodes of a non-empty heap b among nodes
\* that heap a had of its own, and a node of b has become a's root.
C14_Witness ==
    /\ last.op = "merge" /\ last.h = "a"
    /\ size["b"] > 0
    /\ \E j \in Live("a") : \A i \in Live("b") : heap["a"][j] # heap["b"][i]
    /\ \E i \in Live("b") : heap["a"][1] = heap["b"][i]

\* No node is in the storage of two heaps.
Exclusive ==
    \A h \in Heaps, o \in Heaps :
        h # o => \A i \in Live(h), j \in Live(o) : heap[h][i] # heap[o][j]

\* C15: no node is ever live in two heaps at once (a merge leaves the other
\* heap without the nodes it hands over), and a call on one heap neither
\* changes the multiset of (priority, value) pairs of another heap nor breaks
\* its heap invariant.
C15_ExclusiveOwnership ==
    [][/\ Exclusive'
       /\ \A h \in Heaps :
              last'.h # h =>
                  /\ BagOf(Pairs(nodes, heap[h]))' = BagOf(Pairs(nodes, heap[h]))
                  /\ HeapInvariant(h) => HeapInvariant(h)']_vars

\* The nodes that pushes on heap h have constructed, live or not.
Issued(h) == {i \in 1 .. Len(nodes) : owner[i] = h}

\* C16: the sequence counter of a heap never decreases, through a snapshot
\* exit either, and no two nodes that pushes on one heap have constructed
\* carry the same sequence number.
C16_SequenceCounter ==
    [][\A h \in Heaps :
          /\ insertion_count'[h] >= insertion_count[h]
          /\ \A i \in Issued(h)', j \in Issued(h)' :
                 i # j => nodes'[i].insertion_count # nodes'[j].insertion_count]_vars

\* C16's case: a push after a snapshot exit that rolled pushes back, so that
\* the heap has constructed more nodes than it holds and has had taken out.
C16_Witness ==
    /\ last.op \in {"push", "push_with_priority", "bulk_push"}
    /\ scope = <<>>
    /\ raw[last.h] > size[last.h]
    /\ \E i \in Issued(last.h) : \A j \in Live(last.h) : heap[last.h][j] # i

\* C17: drain() consumed without another call in between yields one value
\* and takes one node out for as long as the heap has nodes, the values in
\* ascending priority order, and stops when the heap is empty (size 0,
\* storage empty): n values for a heap of n nodes.
C17_Drain ==
    [][\A h \in Heaps :
          (last'.op = "drain" /\ last'.h = h) =>
              /\ ~last'.raised
              /\ IF size[h] > 0
                 THEN /\ last'.ret # None
                      /\ size'[h] = size[h] - 1
                      /\ Len(heap'[h]) = Len(heap[h]) - 1
                 ELSE /\ last'.ret = None
                      /\ is_empty(h)'
                      /\ heap'[h] = <<>>
              /\ (/\ last.op = "drain" /\ last.h = h
                  /\ last.aux # None /\ last'.aux # None)
                 => last.aux[1].priority <= last'.aux[1].priority]_vars

FirstMatch(h, v) ==
    CHOOSE i \in Live(h) :
        /\ NodeOf(h, i).value = v
        /\ \A j \in 1 .. i - 1 : NodeOf(h, j).value # v

\* C19: when the heap satisfies the heap invariant and remove(value) finds a
\* node, wherever in the storage, the heap satisfies the invariant again when
\* remove returns; the size is one less, and the nodes are the former ones
\* without the first match in storage order, each as it was.
C19_RemoveRepairs ==
    [][\A h \in Heaps, v \in Values :
          (/\ last'.op = "remove" /\ last'.h = h /\ Remove(h, v)
           /\ HeapInvariant(h)
           /\ \E i \in Live(h) : NodeOf(h, i).value = v)
          => /\ ~last'.raised
             /\ last'.ret = Some(TRUE)
             /\ HeapInvariant(h)'
             /\ size'[h] = size[h] - 1
             /\ BagOf(heap'[h]) (+) BagOf(<<heap[h][FirstMatch(h, v)]>>) = BagOf(heap[h])
             /\ nodes' = nodes]_vars

\* C20: when the heap satisfies the heap invariant and update_priority(value,
\* p) finds a node whose priority is at most p, then on return every node is
\* <= both of its children, whatever the depth of the heap; the size and the
\* live nodes are what they were, and the first match in storage order alone
\* has its priority changed, to p.
C20_UpdateSiftsDown ==
    [][\A h \in Heaps, v \in Values, p \in Priorities :
          (/\ last'.op = "update_priority" /\ last'.h = h /\ UpdatePriority(h, v, p)
           /\ HeapInvariant(h)
           /\ \E i \in Live(h) : NodeOf(h, i).value = v
           /\ NodeOf(h, FirstMatch(h, v)).priority <= p)
          => /\ ~last'.raised
             /\ last'.ret = Some(TRUE)
             /\ HeapInvariant(h)'
             /\ size'[h] = size[h]
             /\ BagOf(heap'[h]) = BagOf(heap[h])
             /\ nodes' = [nodes EXCEPT ![heap[h][FirstMatch(h, v)]].priority = p]]_vars

====
